---- MODULE Spec2Model ----
(***************************************************************************)
(* The audio analysis engine of virtuoso-ai-music-lab: AudioProcessor      *)
(* (lib/audio/AudioProcessor.ts).  A call takes a decoded mono buffer and  *)
(* a sample rate, runs detectTempo, calculateEnergy and detectKey, merges  *)
(* them in analyzeAudio, and downsamples the buffer in generateWaveform.   *)
(*                                                                         *)
(* Numbers.  A sample is an integer v standing for the float v (so a       *)
(* buffer is unit-normalized when every |v| <= 1).  Every float the code   *)
(* derives is kept exactly, as a fraction of integers:                     *)
(*   an RMS value sqrt(sq / n)      is the record [sq, n];                 *)
(*   the raw tempo                  is the record [num, den];              *)
(*   a chroma entry w[i] / sum      is the pair (w[i], sum);               *)
(*   a key score  s / (100 * sum)   is the integer s;                      *)
(*   a confidence                   is the record [num, den];              *)
(*   an onset time i * 0.1 s        is the integer i (tenths of a second). *)
(* Rounded outputs are integers: tempo in BPM, energy as the code reports  *)
(* it (Math.round(energy * 100)), confidence in hundredths.                *)
(***************************************************************************)
EXTENDS Integers, Sequences, FiniteSets, TLC

(***************************************************************************)
(* Bounds of the model                                                     *)
(***************************************************************************)
\* longest buffer whose samples are enumerated exhaustively
MaxLen == 3
\* entries of the peaks array the waveform loop is followed for
MaxPeaks == 200

(***************************************************************************)
(* Program constants                                                       *)
(***************************************************************************)
SAMPLE_RATE == 22050
MAX_FILE_SIZE == 52428800
MAX_DURATION == 300
targetPeaks == 100
\* Math.max() of no arguments is -Infinity; every |x| and RMS is >= 0
NegInfinity == -1

Calls == {1, 2}

Min(a, b) == IF a <= b THEN a ELSE b
Max(a, b) == IF a >= b THEN a ELSE b
Abs(v) == IF v < 0 THEN 0 - v ELSE v

(***************************************************************************)
(* Buffers.  A Float32Array of len samples whose i-th sample (from 0) is   *)
(* cyc[(i mod Len(cyc)) + 1]: any finite buffer is of this form with       *)
(* cyc the buffer itself; long buffers repeat a short cycle.               *)
(***************************************************************************)
Buffer(n, c) == [len |-> n, cyc |-> c]
At(b, i) == b.cyc[(i % Len(b.cyc)) + 1]

\* samples.slice(start, end): the index range [lo, hi) clipped to the buffer
SliceLo(b, start) == Min(Max(start, 0), b.len)
SliceHi(b, start, end) == Max(SliceLo(b, start), Min(Max(end, 0), b.len))

\* sum of f over lo..hi-1 by halving (integer addition is associative)
RECURSIVE SumSq(_, _, _)
SumSq(b, lo, hi) ==
  IF hi <= lo THEN 0
  ELSE IF hi - lo = 1 THEN At(b, lo) * At(b, lo)
  ELSE LET m == (lo + hi) \div 2 IN SumSq(b, lo, m) + SumSq(b, m, hi)

RECURSIVE MaxAbs(_, _, _)
MaxAbs(b, lo, hi) ==
  IF hi <= lo THEN NegInfinity
  ELSE IF hi - lo = 1 THEN Abs(At(b, lo))
  ELSE LET m == (lo + hi) \div 2 IN Max(MaxAbs(b, lo, m), MaxAbs(b, m, hi))

(***************************************************************************)
(* rmsEnergy: sqrt(sum / length), 0 for an empty chunk.  [sq, n] stands    *)
(* for sqrt(sq / n).                                                       *)
(***************************************************************************)
\* mutant: the sum of squares is not divided by the length
rmsEnergySum(b, lo, hi) ==
  IF hi - lo <= 0 THEN [sq |-> 0, n |-> 1]
  ELSE [sq |-> SumSq(b, lo, hi), n |-> 1]

rmsEnergy(b, lo, hi) ==
  IF hi - lo <= 0 THEN [sq |-> 0, n |-> 1]
  ELSE [sq |-> SumSq(b, lo, hi), n |-> hi - lo]

\* sqrt(a.sq / a.n) > sqrt(c.sq / c.n)
RmsGreater(a, c) == a.sq * c.n > c.sq * a.n
\* sqrt(a.sq / a.n) > 0.6 * sqrt(c.sq / c.n)
RmsAboveThreshold(a, c) == 25 * a.sq * c.n > 9 * c.sq * a.n

calculateEnergy(b) == rmsEnergy(b, 0, b.len)

(***************************************************************************)
(* detectTempo                                                             *)
(***************************************************************************)
\* Math.floor(sampleRate * 0.1)
TempoChunkSize(sampleRate) == sampleRate \div 10

\* Math.min(100, Math.floor(samples.length / chunkSize)); the loop bound is
\* Infinity -> 100 when chunkSize = 0 and len > 0, NaN (no iteration) when
\* both are 0, and not positive when chunkSize < 0
MaxChunks(b, chunkSize) ==
  IF chunkSize > 0 THEN Min(100, b.len \div chunkSize)
  ELSE IF chunkSize = 0 /\ b.len > 0 THEN 100
  ELSE 0

\* the RMS energy of each chunk: energies[i] of the code is Energies[i + 1]
Energies(b, sampleRate) ==
  LET chunkSize == TempoChunkSize(sampleRate)
  IN [i \in 1..MaxChunks(b, chunkSize) |->
        LET start == (i - 1) * chunkSize
        IN rmsEnergy(b, SliceLo(b, start), SliceHi(b, start, start + chunkSize))]

\* Math.max(...energies)
MaxRms(E) == CHOOSE e \in {E[j] : j \in DOMAIN E} : \A j \in DOMAIN E : ~RmsGreater(E[j], e)

\* mutant: a window as loud as its neighbour counts as a peak
PeakIndicesPlateau(E) ==
  {i \in 1..(Len(E) - 2) :
     /\ RmsAboveThreshold(E[i + 1], MaxRms(E))
     /\ ~RmsGreater(E[i], E[i + 1])
     /\ ~RmsGreater(E[i + 2], E[i + 1])}

\* the indices i (of the code, from 0) pushed to peaks; i stands for the
\* onset time i * 0.1 s
PeakIndices(E) ==
  {i \in 1..(Len(E) - 2) :
     /\ RmsAboveThreshold(E[i + 1], MaxRms(E))
     /\ RmsGreater(E[i + 1], E[i])
     /\ RmsGreater(E[i + 1], E[i + 2])}

\* the elements of a set of integers in increasing order
Ascending(S) ==
  [k \in 1..Cardinality(S) |-> CHOOSE x \in S : Cardinality({y \in S : y < x}) = k - 1]

\* mutant: every interval is measured from the first peak
IntervalsFromFirst(peaks) == [k \in 1..(Len(peaks) - 1) |-> peaks[k + 1] - peaks[1]]

\* peaks.slice(1).map((peak, i) => peak - peaks[i])
Intervals(peaks) == [k \in 1..(Len(peaks) - 1) |-> peaks[k + 1] - peaks[k]]

RECURSIVE SumSeq(_, _, _)
SumSeq(s, lo, hi) ==
  IF hi < lo THEN 0
  ELSE IF hi = lo THEN s[lo]
  ELSE LET m == (lo + hi) \div 2 IN SumSeq(s, lo, m) + SumSeq(s, m + 1, hi)

\* mutant: the bpm is returned as computed
ClampBpmNone(num, den) == [num |-> num, den |-> den]

\* Math.max(60, Math.min(200, bpm)) of the fraction num / den (den > 0)
ClampBpm(num, den) ==
  IF num > 200 * den THEN [num |-> 200, den |-> 1]
  ELSE IF num < 60 * den THEN [num |-> 60, den |-> 1]
  ELSE [num |-> num, den |-> den]

\* the onsets detectTempo finds, in tenths of a second
Onsets(b, sampleRate) == Ascending(PeakIndices(Energies(b, sampleRate)))

\* mutant: the default tempo is 100
detectTempoDefault100(b, sampleRate) ==
  LET peaks == Onsets(b, sampleRate)
      intervals == Intervals(peaks)
  IN IF Len(peaks) < 2 THEN [num |-> 100, den |-> 1]
     ELSE ClampBpm(600 * Len(intervals), SumSeq(intervals, 1, Len(intervals)))

\* avgInterval = sum / intervals.length seconds is (sum / 10) / cnt, so
\* bpm = 60 / avgInterval = 600 * cnt / sum
detectTempo(b, sampleRate) ==
  LET peaks == Onsets(b, sampleRate)
      intervals == Intervals(peaks)
  IN IF Len(peaks) < 2 THEN [num |-> 120, den |-> 1]
     ELSE ClampBpm(600 * Len(intervals), SumSeq(intervals, 1, Len(intervals)))

(***************************************************************************)
(* detectPitch, calculateChroma                                            *)
(***************************************************************************)
ChromaChunkSize == 4096
MaxChromaChunks == 20

\* sum over i = 4k, k in klo..khi-1, of samples[i] * samples[i + period],
\* for the chunk that starts at sample base
RECURSIVE CorrSum(_, _, _, _, _)
CorrSum(b, base, period, klo, khi) ==
  IF khi <= klo THEN 0
  ELSE IF khi - klo = 1
    THEN At(b, base + 4 * klo) * At(b, base + 4 * klo + period)
  ELSE LET m == (klo + khi) \div 2
       IN CorrSum(b, base, period, klo, m) + CorrSum(b, base, period, m, khi)

\* the inner loop of detectPitch: correlation / count as [c, n]; the loop
\* runs for i = 0, 4, 8, ... < n - period
Correlation(b, base, n, period) ==
  LET count == IF n - period <= 0 THEN 0 ELSE ((n - period - 1) \div 4) + 1
  IN [c |-> CorrSum(b, base, period, 0, count), n |-> count]

\* the periods the outer loop visits: minPeriod, minPeriod + 2, ... below
\* Math.min(maxPeriod, samples.length / 2)
Periods(n, sampleRate) ==
  LET minPeriod == sampleRate \div 800
      maxPeriod == sampleRate \div 80
  IN {p \in minPeriod..(maxPeriod - 1) : 2 * p < n /\ (p - minPeriod) % 2 = 0}

\* the scan "if (correlation > bestCorrelation)" over periods lo, lo + 2,
\* ..., hi: [period, c, n], the earliest period of the largest positive
\* correlation, period 0 and correlation 0 (c = 0, n = 1) when none is
RECURSIVE BestOf(_, _, _, _, _)
BestOf(b, base, n, lo, hi) ==
  IF hi < lo THEN [period |-> 0, c |-> 0, n |-> 1]
  ELSE IF hi = lo THEN
    LET r == Correlation(b, base, n, lo)
    IN IF r.n > 0 /\ r.c > 0 THEN [period |-> lo, c |-> r.c, n |-> r.n]
       ELSE [period |-> 0, c |-> 0, n |-> 1]
  ELSE LET m == lo + 2 * (((hi - lo) \div 2) \div 2)
           l == BestOf(b, base, n, lo, m)
           r == BestOf(b, base, n, m + 2, hi)
       IN IF r.c * l.n > l.c * r.n THEN r ELSE l

\* mutant: bestPeriod starts at minPeriod, and is reported when no period
\* correlates
detectPitchFromMin(b, base, n, sampleRate) ==
  LET P == Periods(n, sampleRate)
      minPeriod == sampleRate \div 800
      best == IF P = {} THEN [period |-> 0, c |-> 0, n |-> 1]
              ELSE BestOf(b, base, n, CHOOSE p \in P : \A q \in P : p <= q,
                                       CHOOSE p \in P : \A q \in P : p >= q)
  IN IF best.period > 0 THEN [num |-> sampleRate, den |-> best.period]
     ELSE IF minPeriod > 0 THEN [num |-> sampleRate, den |-> minPeriod]
     ELSE [num |-> 0, den |-> 1]

\* detectPitch: sampleRate / bestPeriod as [num, den], 0 as [0, 1]
detectPitch(b, base, n, sampleRate) ==
  LET P == Periods(n, sampleRate)
      best == IF P = {} THEN [period |-> 0, c |-> 0, n |-> 1]
              ELSE BestOf(b, base, n, CHOOSE p \in P : \A q \in P : p <= q,
                                       CHOOSE p \in P : \A q \in P : p >= q)
  IN IF best.period > 0 THEN [num |-> sampleRate, den |-> best.period]
     ELSE [num |-> 0, den |-> 1]

\* 440 * 2^((m - 69.5) / 12) in mHz for m = 40..95: Math.round(12 *
\* Math.log2(pitch / 440) + 69) is m exactly when pitch lies between the
\* m-th and the (m+1)-th of these
MidiBoundary ==
  << 80061, 84822, 89865, 95209, 100870, 106869, 113223, 119956, 127089,
     134646, 142652, 151135, 160122, 169643, 179731, 190418, 201741, 213737,
     226446, 239912, 254178, 269292, 285305, 302270, 320244, 339286, 359461,
     380836, 403482, 427474, 452893, 479823, 508355, 538584, 570609, 604540,
     640487, 678573, 718923, 761672, 806964, 854948, 905786, 959647, 1016710,
     1077167, 1141219, 1209079, 1280975, 1357146, 1437846, 1523344, 1613927,
     1709896, 1811572, 1919294 >>

\* Math.round(midiNote) for a pitch in (80, 2000) Hz
MidiNote(pitch) ==
  39 + Cardinality({k \in DOMAIN MidiBoundary :
                      pitch.num * 1000 >= MidiBoundary[k] * pitch.den})

\* "pitch > 80 && pitch < 2000"
InMusicalRange(pitch) ==
  pitch.num > 80 * pitch.den /\ pitch.num < 2000 * pitch.den

\* chroma[chromaClass] += 1 on a JavaScript array: an index that is not an
\* entry yet becomes one
Bump(chroma, k) ==
  IF k \in DOMAIN chroma THEN [chroma EXCEPT ![k] = @ + 1]
  ELSE [j \in DOMAIN chroma \cup {k} |-> IF j = k THEN 1 ELSE chroma[j]]

\* the chroma class of chunk i (from 0), or -1 when the chunk adds nothing
ChromaClassOf(b, i, sampleRate) ==
  LET pitch == detectPitch(b, i * ChromaChunkSize, ChromaChunkSize, sampleRate)
  IN IF InMusicalRange(pitch) THEN MidiNote(pitch) % 12 ELSE -1

RECURSIVE Accumulate(_, _, _, _, _)
Accumulate(b, sampleRate, i, numChunks, chroma) ==
  IF i >= numChunks THEN chroma
  ELSE LET chromaClass == ChromaClassOf(b, i, sampleRate)
       IN Accumulate(b, sampleRate, i + 1, numChunks,
                     IF chromaClass >= 0 THEN Bump(chroma, chromaClass) ELSE chroma)

RECURSIVE SumFn(_, _)
SumFn(f, S) ==
  IF S = {} THEN 0
  ELSE LET x == CHOOSE y \in S : TRUE IN f[x] + SumFn(f, S \ {x})

\* mutant: the histogram is divided by the number of frames a buffer can have
NormalizeByFrames(chroma) == [w |-> chroma, sum |-> MaxChromaChunks]

\* "sum > 0 ? chroma.map(x => x / sum) : chroma": entry i is w[i] / sum
Normalize(chroma) ==
  LET sum == SumFn(chroma, DOMAIN chroma)
  IN IF sum > 0 THEN [w |-> chroma, sum |-> sum] ELSE [w |-> chroma, sum |-> 1]

calculateChroma(b, sampleRate) ==
  LET numChunks == Min(MaxChromaChunks, b.len \div ChromaChunkSize)
  IN Normalize(Accumulate(b, sampleRate, 0, numChunks, [j \in 0..11 |-> 0]))

(***************************************************************************)
(* correlate, detectKey                                                    *)
(***************************************************************************)
keys == <<"C", "C#", "D", "D#", "E", "F", "F#", "G", "G#", "A", "A#", "B">>

\* the Krumhansl-Schmuckler profiles, times 100
majorProfile == <<635, 223, 348, 233, 438, 409, 252, 519, 239, 366, 229, 288>>
minorProfile == <<633, 268, 352, 538, 260, 353, 254, 475, 398, 269, 334, 317>>

RECURSIVE CorrelateFrom(_, _, _, _)
CorrelateFrom(w, profile, shift, i) ==
  IF i >= 12 THEN 0
  ELSE w[i] * profile[((i + shift) % 12) + 1] + CorrelateFrom(w, profile, shift, i + 1)

\* correlate(chroma, profile, shift) times 100 * chroma.sum
correlate(chroma, profile, shift) == CorrelateFrom(chroma.w, profile, shift, 0)

\* mutant: a score equal to the best one replaces it
ConsiderLast(st, score, key, mode) ==
  IF score >= st.bestScore
    THEN [bestKey |-> key, bestMode |-> mode, bestScore |-> score,
          secondBestScore |-> st.bestScore]
  ELSE IF score > st.secondBestScore
    THEN [st EXCEPT !.secondBestScore = score]
  ELSE st

\* mutant: the second-best score changes only when the best one does
ConsiderNoSecond(st, score, key, mode) ==
  IF score > st.bestScore
    THEN [bestKey |-> key, bestMode |-> mode, bestScore |-> score,
          secondBestScore |-> st.bestScore]
  ELSE st

\* one "if (score > bestScore) ... else if (score > secondBestScore)" step
Consider(st, score, key, mode) ==
  IF score > st.bestScore
    THEN [bestKey |-> key, bestMode |-> mode, bestScore |-> score,
          secondBestScore |-> st.bestScore]
  ELSE IF score > st.secondBestScore
    THEN [st EXCEPT !.secondBestScore = score]
  ELSE st

\* the loop over shift = 0..11, major before minor at each shift
RECURSIVE KeyScan(_, _, _)
KeyScan(chroma, shift, st) ==
  IF shift >= 12 THEN st
  ELSE LET afterMajor == Consider(st, correlate(chroma, majorProfile, shift),
                                  keys[shift + 1], "major")
           afterMinor == Consider(afterMajor, correlate(chroma, minorProfile, shift),
                                  keys[shift + 1], "minor")
       IN KeyScan(chroma, shift + 1, afterMinor)

\* mutant: the score separation is returned as computed
KeyConfidenceRaw(bestScore, secondBestScore) ==
  IF bestScore <= 0 THEN [num |-> 30, den |-> 100]
  ELSE [num |-> bestScore - secondBestScore, den |-> bestScore]

\* Math.min(0.95, Math.max(0.3, (bestScore - secondBestScore) / bestScore)),
\* or 0.3 when bestScore is not positive, as a fraction
KeyConfidence(bestScore, secondBestScore) ==
  LET gap == bestScore - secondBestScore
  IN IF bestScore <= 0 THEN [num |-> 30, den |-> 100]
     ELSE IF 100 * gap < 30 * bestScore THEN [num |-> 30, den |-> 100]
     ELSE IF 100 * gap > 95 * bestScore THEN [num |-> 95, den |-> 100]
     ELSE [num |-> gap, den |-> bestScore]

\* the initial bestScore = secondBestScore = -1 is -100 * chroma.sum on the
\* scale of the scores
detectKeyFrom(chroma) ==
  LET st == KeyScan(chroma, 0,
                    [bestKey |-> "C", bestMode |-> "major",
                     bestScore |-> 0 - 100 * chroma.sum,
                     secondBestScore |-> 0 - 100 * chroma.sum])
  IN [key |-> st.bestKey, mode |-> st.bestMode,
      confidence |-> KeyConfidence(st.bestScore, st.secondBestScore)]

detectKey(b, sampleRate) == detectKeyFrom(calculateChroma(b, sampleRate))

(***************************************************************************)
(* analyzeAudio: the merge after Promise.all                               *)
(***************************************************************************)
\* Math.round of the fraction num / den >= 0
RoundFrac(num, den) == (2 * num + den) \div (2 * den)

\* the largest k in lo..hi with k * k <= x (lo * lo <= x)
RECURSIVE IsqrtIn(_, _, _)
IsqrtIn(lo, hi, x) ==
  IF lo >= hi THEN lo
  ELSE LET m == (lo + hi + 1) \div 2
       IN IF m * m <= x THEN IsqrtIn(m, hi, x) ELSE IsqrtIn(lo, m - 1, x)

Isqrt(x) == IsqrtIn(0, Min(x, 46340), x)

\* Math.round(energy * 100) for energy = sqrt(sq / n):
\* floor(100 * sqrt(q) + 1/2) = (floor(sqrt(40000 * q)) + 1) div 2
RoundEnergy(e) ==
  LET scaled == 40000 * (e.sq \div e.n) + (40000 * (e.sq % e.n)) \div e.n
  IN (Isqrt(scaled) + 1) \div 2

\* tempo >= 60 && tempo <= 200 ? 0.9 : 0.6, in hundredths
TempoConfidence(tempo) ==
  IF tempo.num >= 60 * tempo.den /\ tempo.num <= 200 * tempo.den THEN 90 ELSE 60

\* mutant: the energy sub-confidence is 0.95 whatever the energy
EnergyConfidenceAlways(e) == 95

\* energy > 0 ? 0.95 : 0.3, in hundredths
EnergyConfidence(e) == IF e.sq > 0 THEN 95 ELSE 30

\* mutant: the three sub-confidences are summed, not averaged
RoundConfidenceSum(tc, ec, kc) ==
  RoundFrac((tc + ec) * kc.den + 100 * kc.num, kc.den)

\* Math.round(confidence * 100), for confidence = (tc + ec + kc) / 3
RoundConfidence(tc, ec, kc) ==
  RoundFrac((tc + ec) * kc.den + 100 * kc.num, 3 * kc.den)

analyzeAudio(tempo, e, keyResult) ==
  [key |-> keyResult.key,
   mode |-> keyResult.mode,
   tempo |-> RoundFrac(tempo.num, tempo.den),
   energy |-> RoundEnergy(e),
   confidence |-> RoundConfidence(TempoConfidence(tempo), EnergyConfidence(e),
                                  keyResult.confidence)]

(***************************************************************************)
(* generateWaveform                                                        *)
(***************************************************************************)
\* Math.floor(samples.length / targetPeaks)
BlockSize(b) == b.len \div targetPeaks

\* Math.max(...Array.from(block).map(Math.abs)) of samples.slice(i, i + blockSize)
BlockPeak(b, i) == MaxAbs(b, SliceLo(b, i), SliceHi(b, i, i + BlockSize(b)))

\* peaks.slice(0, targetPeaks)
SlicePeaks(peaks) == SubSeq(peaks, 1, Min(Len(peaks), targetPeaks))

(***************************************************************************)
(* Inputs                                                                  *)
(***************************************************************************)
\* sample values: -1, 0, 1 are unit-normalized, 2 is not
Amps == {-1, 0, 1, 2}

\* every buffer of at most MaxLen samples
ShortBuffers ==
  {Buffer(Len(s), s) : s \in UNION {[1..n -> Amps] : n \in 0..MaxLen}}

Silence == <<0>>

\* click trains and other envelopes, analysed in windows of 1 or 2 samples
RhythmCycles ==
  { Silence, <<1>>, <<0, 1>>, <<0, 1, 0>>, <<0, 1, 0, 0, 0, 0>>,
    <<0, 0, 1, 1, 0, 0, 0, 0, 0, 0>>, <<0, 2, 0, 1, 0, 0, 0>>,
    <<0, 1, 0, 0, 0, 0, 0, 1, 0, 0, 0, 0, 0, 1, 0, 0, 0, 0,
      0, 1, 0, 0, 0, 0, 0, 0, 0, 0, 0, 0>>,
    <<1, 2, 1, 0, 1, -1, 0, 0, 1, -2, 0, 0, 0, 0, 0, 0, 0>> }
RhythmLens == {5, 7, 50, 99, 100, 101, 150, 199, 200, 250}
RhythmRates == {10, 20}

\* periodic signals long enough for one or two chroma chunks
PitchCycles ==
  { Silence, <<1, -1>>, <<1, 0, -1, 0>>, <<1, 1, 0, -1, -1, 0, 0, 0>>,
    <<1, 1, 1, 0, -1, -1, -1, 0, 0, 0>> }
PitchLens == {4096, 8192}
PitchRates == {1600, 3200}

\* rates at which no window and no period exists, the engine's own rate and
\* the rate of the spec's scenarios
EdgeRates == {-10, 0, 5, SAMPLE_RATE, 44100}
EdgeBuffers ==
  {Buffer(n, c) : n \in {0, 1, 3, 100}, c \in {Silence, <<1, -1, 2>>}}

Input(b, r) == [samples |-> b, sampleRate |-> r]

\* click trains of 20 seconds: six windows of chunk samples, repeated; the
\* window at place phase holds the click win, the other five are silent
ClickRates == {10, 20}
ClickCycle(win, phase, chunk) ==
  [j \in 1..(6 * chunk) |->
     IF (j - 1) \div chunk = phase THEN win[((j - 1) % chunk) + 1] ELSE 0]
ClickWindows(chunk) == {win \in [1..chunk -> Amps] : \E j \in 1..chunk : win[j] # 0}
ClickTrains ==
  UNION {{Input(Buffer(20 * r, ClickCycle(win, phase, r \div 10)), r) :
            win \in ClickWindows(r \div 10), phase \in 0..5} : r \in ClickRates}

\* silence with one sample of 1 at the very end
TailBuffers == {Buffer(n, [j \in 1..n |-> IF j = n THEN 1 ELSE 0]) : n \in {101, 199}}

\* one chroma chunk of a square wave whose period is the shortest one
\* detectPitch tries: 27 samples at the engine's rate, 1 sample at 1000 Hz
SquareWave(period) == [j \in 1..period |-> IF 2 * j <= period + 1 THEN 1 ELSE -1]
ToneInputs ==
  { Input(Buffer(ChromaChunkSize, SquareWave(SAMPLE_RATE \div 800)), SAMPLE_RATE),
    Input(Buffer(ChromaChunkSize, SquareWave(1)), 1000) }

Inputs ==
  {Input(b, r) : b \in ShortBuffers, r \in {10}}
  \cup {Input(Buffer(n, c), r) : n \in RhythmLens, c \in RhythmCycles, r \in RhythmRates}
  \cup {Input(Buffer(n, c), r) : n \in PitchLens, c \in PitchCycles, r \in PitchRates}
  \cup {Input(b, r) : b \in EdgeBuffers, r \in EdgeRates}
  \cup {Input(Buffer(4096, Silence), 44100)}
  \cup ClickTrains
  \cup {Input(b, 10) : b \in TailBuffers}
  \cup ToneInputs

\* the uploaded File: its MIME type, its size in bytes, and whether
\* decodeAudioData accepts it
Files ==
  [type : {"audio/wav", "text/plain"},
   size : {0, MAX_FILE_SIZE, MAX_FILE_SIZE + 1},
   decodes : BOOLEAN]

(***************************************************************************)
(* State                                                                   *)
(***************************************************************************)
VARIABLES
  pc,          \* where each call of processAudioFile stands
  samples,     \* processedSamples of the call
  sampleRate,  \* the sample rate the analysis is given
  tempo,       \* detectTempo's result
  energy,      \* calculateEnergy's result
  chroma,      \* calculateChroma's result, inside detectKey
  keyResult,   \* detectKey's result
  analysis,    \* the AudioAnalysis analyzeAudio returns
  i,           \* generateWaveform's loop variable
  peaks,       \* generateWaveform's peaks array
  waveform,    \* the WaveformData generateWaveform returns
  error,       \* the message of the Error the call threw
  orch,        \* MusicGenerationOrchestrator: its services and a generateMusic call
  acr,         \* the edge function: a call of processAcrCloudResponse
  limiter,     \* audio-service: rateLimitMap and the timers checkRateLimit set
  fft,         \* the FFT-variant hook: a call of its detectTempo
  app          \* the App component: its React state and what it awaits

\* the state of AudioProcessor's calls
audioVars == <<pc, samples, sampleRate, tempo, energy, chroma, keyResult,
               analysis, i, peaks, waveform, error>>

vars == <<pc, samples, sampleRate, tempo, energy, chroma, keyResult, analysis,
          i, peaks, waveform, error, orch, acr, limiter, fft, app>>

None == [none |-> TRUE]

\* MusicGenerationOrchestrator before generateMusic is called: no service
\* is registered yet, no call is under way
OrchInit ==
  [pc |-> "idle", services |-> <<>>, retryAttempts |-> 0, service |-> 0,
   attempt |-> 0, waitMs |-> 0, settles |-> FALSE, unavailable |-> {},
   failed |-> <<>>, timeouts |-> 0, result |-> None]

\* rateLimitMap is empty and no timer is set
\* and the state kept for it: time advances in ticks, the rate limit
\* window is WindowTicks ticks long; timers[u][r] counts the timers of
\* user u with r ticks left, admitted[u][a] the requests of u admitted a
\* ticks ago
WindowTicks == 3

Users == {"anonymous", "u1"}

NoTimers == [u \in Users |-> [r \in 0..WindowTicks |-> 0]]

NoAdmissions == [u \in Users |-> [a \in 0..(WindowTicks - 1) |-> 0]]

LimiterInit ==
  [map |-> [u \in {} |-> 0], timers |-> NoTimers, admitted |-> NoAdmissions,
   last |-> None]

\* the useState initial values of App; awaiting is the promise a handler
\* waits for, todo the setters called after an await and not yet
\* rendered, timers the pending setProgress(0) timers, last the latest
\* event
AppInit ==
  [state |-> "import", mode |-> "solo", instrument |-> "saxophone",
   group |-> "orchestra", analysis |-> None, sourceFile |-> None,
   generatedFile |-> None, progress |-> 0, error |-> None,
   awaiting |-> "none", file |-> None, todo |-> <<>>, timers |-> 0,
   last |-> "none"]

Init ==
  /\ pc = [c \in Calls |-> "idle"]
  /\ samples = [c \in Calls |-> Buffer(0, <<>>)]
  /\ sampleRate = [c \in Calls |-> SAMPLE_RATE]
  /\ tempo = [c \in Calls |-> None]
  /\ energy = [c \in Calls |-> None]
  /\ chroma = [c \in Calls |-> None]
  /\ keyResult = [c \in Calls |-> None]
  /\ analysis = [c \in Calls |-> None]
  /\ i = [c \in Calls |-> 0]
  /\ peaks = [c \in Calls |-> <<>>]
  /\ waveform = [c \in Calls |-> None]
  /\ error = [c \in Calls |-> "none"]
  /\ orch = OrchInit
  /\ acr = None
  /\ limiter = LimiterInit
  /\ fft = None
  /\ app = AppInit

(***************************************************************************)
(* processAudioFile                                                        *)
(***************************************************************************)
\* validateFile: the message it throws, "none" when it returns
validateFile(file) ==
  IF file.type \notin {"audio/wav"} THEN "Invalid file type. Please upload an audio file."
  ELSE IF file.size > MAX_FILE_SIZE THEN "File too large. Please use files smaller than 50MB."
  ELSE "none"

\* samples.slice(0, Math.min(samples.length, SAMPLE_RATE * MAX_DURATION))
Truncate(b) == Buffer(Min(b.len, SAMPLE_RATE * MAX_DURATION), b.cyc)

\* a call starts: validation, decoding, truncation.  The analysis
\* functions take the sample rate as a parameter; it is drawn with the buffer
\* (processAudioFile itself passes SAMPLE_RATE).
ProcessAudioFile(c, in) ==
  /\ pc[c] = "idle"
  /\ \E file \in Files :
       LET thrown == IF validateFile(file) # "none" THEN validateFile(file)
                     ELSE IF ~file.decodes THEN "Unable to decode audio data"
                     ELSE "none"
       IN IF thrown # "none"
            THEN /\ pc' = [pc EXCEPT ![c] = "failed"]
                 /\ error' = [error EXCEPT ![c] = thrown]
                 /\ UNCHANGED <<samples, sampleRate>>
            ELSE /\ pc' = [pc EXCEPT ![c] = "tempo"]
                 /\ error' = [error EXCEPT ![c] = "none"]
                 /\ samples' = [samples EXCEPT ![c] = Truncate(in.samples)]
                 /\ sampleRate' = [sampleRate EXCEPT ![c] = in.sampleRate]
  /\ UNCHANGED <<tempo, energy, chroma, keyResult, analysis, i, peaks, waveform>>

\* mutant: the sample rate is read from a place another call writes
DetectTempoCross(c) ==
  /\ pc[c] = "tempo"
  /\ tempo' = [tempo EXCEPT ![c] =
                 detectTempo(samples[c], sampleRate[CHOOSE d \in Calls : d # c])]
  /\ pc' = [pc EXCEPT ![c] = "energy"]
  /\ UNCHANGED <<samples, sampleRate, energy, chroma, keyResult, analysis, i,
                 peaks, waveform, error>>

\* analyzeAudio's three calls: detectTempo, calculateEnergy, detectKey
DetectTempo(c) ==
  /\ pc[c] = "tempo"
  /\ tempo' = [tempo EXCEPT ![c] = detectTempo(samples[c], sampleRate[c])]
  /\ pc' = [pc EXCEPT ![c] = "energy"]
  /\ UNCHANGED <<samples, sampleRate, energy, chroma, keyResult, analysis, i,
                 peaks, waveform, error>>

\* mutant: the energy is computed from the buffer of the other call
CalculateEnergyCross(c) ==
  /\ pc[c] = "energy"
  /\ energy' = [energy EXCEPT ![c] =
                  calculateEnergy(samples[CHOOSE d \in Calls : d # c])]
  /\ pc' = [pc EXCEPT ![c] = "key"]
  /\ UNCHANGED <<samples, sampleRate, tempo, chroma, keyResult, analysis, i,
                 peaks, waveform, error>>

CalculateEnergy(c) ==
  /\ pc[c] = "energy"
  /\ energy' = [energy EXCEPT ![c] = calculateEnergy(samples[c])]
  /\ pc' = [pc EXCEPT ![c] = "key"]
  /\ UNCHANGED <<samples, sampleRate, tempo, chroma, keyResult, analysis, i,
                 peaks, waveform, error>>

DetectKey(c) ==
  /\ pc[c] = "key"
  /\ chroma' = [chroma EXCEPT ![c] = calculateChroma(samples[c], sampleRate[c])]
  /\ keyResult' = [keyResult EXCEPT ![c] = detectKeyFrom(chroma'[c])]
  /\ pc' = [pc EXCEPT ![c] = "merge"]
  /\ UNCHANGED <<samples, sampleRate, tempo, energy, analysis, i, peaks,
                 waveform, error>>

\* analyzeAudio after Promise.all: the confidence and the returned record.
\* It reads analyzeAudio's own locals only, so it is placed before
\* generateWaveform, which the runtime starts while this merge is pending.
AnalyzeAudio(c) ==
  /\ pc[c] = "merge"
  /\ analysis' = [analysis EXCEPT ![c] = analyzeAudio(tempo[c], energy[c], keyResult[c])]
  /\ pc' = [pc EXCEPT ![c] = "waveform"]
  /\ UNCHANGED <<samples, sampleRate, tempo, energy, chroma, keyResult, i,
                 peaks, waveform, error>>

\* one iteration of "for (let i = 0; i < samples.length; i += blockSize)".
\* The model follows the peaks array up to MaxPeaks entries.
WaveformLoop(c) ==
  /\ pc[c] = "waveform"
  /\ i[c] < samples[c].len
  /\ peaks' = [peaks EXCEPT ![c] =
                 IF Len(@) < MaxPeaks THEN Append(@, BlockPeak(samples[c], i[c])) ELSE @]
  /\ i' = [i EXCEPT ![c] = @ + BlockSize(samples[c])]
  /\ UNCHANGED <<pc, samples, sampleRate, tempo, energy, chroma, keyResult,
                 analysis, waveform, error>>

\* the loop is left: generateWaveform returns, Promise.all settles and
\* processAudioFile returns { analysis, waveform }
WaveformReturn(c) ==
  /\ pc[c] = "waveform"
  /\ ~(i[c] < samples[c].len)
  /\ waveform' = [waveform EXCEPT ![c] = [peaks |-> SlicePeaks(peaks[c])]]
  /\ pc' = [pc EXCEPT ![c] = "done"]
  /\ UNCHANGED <<samples, sampleRate, tempo, energy, chroma, keyResult,
                 analysis, i, peaks, error>>

\* the caller has taken the result (or the error); the locals of the call
\* are gone and the next call may start
Settle(c) ==
  /\ pc[c] \in {"done", "failed"}
  /\ pc' = [pc EXCEPT ![c] = "idle"]
  /\ samples' = [samples EXCEPT ![c] = Buffer(0, <<>>)]
  /\ sampleRate' = [sampleRate EXCEPT ![c] = SAMPLE_RATE]
  /\ tempo' = [tempo EXCEPT ![c] = None]
  /\ energy' = [energy EXCEPT ![c] = None]
  /\ chroma' = [chroma EXCEPT ![c] = None]
  /\ keyResult' = [keyResult EXCEPT ![c] = None]
  /\ analysis' = [analysis EXCEPT ![c] = None]
  /\ i' = [i EXCEPT ![c] = 0]
  /\ peaks' = [peaks EXCEPT ![c] = <<>>]
  /\ waveform' = [waveform EXCEPT ![c] = None]
  /\ error' = [error EXCEPT ![c] = "none"]

Step(c) ==
  \/ DetectTempo(c)
  \/ CalculateEnergy(c)
  \/ DetectKey(c)
  \/ AnalyzeAudio(c)
  \/ WaveformLoop(c)
  \/ WaveformReturn(c)
  \/ Settle(c)

\* one call at a time
Next ==
  /\ \/ \E in \in Inputs : ProcessAudioFile(1, in)
     \/ Step(1)
  /\ UNCHANGED <<orch, acr, limiter, fft, app>>

Spec == Init /\ [][Next]_vars

\* two calls in flight, their steps interleaved in any order.  The second
\* and third input hold the same samples, written down differently.
PairInputs ==
  { Input(Buffer(100, <<0, 1, 0>>), 10),
    Input(Buffer(100, <<0, 1, 0, 0, 0, 0>>), 10),
    Input(Buffer(100, <<0, 1, 0, 0, 0, 0, 0, 1, 0, 0, 0, 0>>), 10) }

NextPair ==
  /\ \E c \in Calls :
       \/ \E in \in PairInputs : ProcessAudioFile(c, in)
       \/ Step(c)
  /\ UNCHANGED <<orch, acr, limiter, fft, app>>

SpecPair == Init /\ [][NextPair]_vars

(***************************************************************************)
(* detectKey on its own: the classifier applied to pitch-class histograms. *)
(* calculateChroma counts one pitch class per chunk, so its result is a    *)
(* histogram over 0..11 divided by its total.                              *)
(***************************************************************************)
\* the histogram moved up by n semitones: entry (j + n) mod 12 is w[j]
ShiftUp(w, n) == [j \in 0..11 |-> w[(j + 12 - n) % 12]]

\* histograms over C: nothing, one pitch class, a tritone, a fifth, a major
\* triad with a doubled root, the white keys, every pitch class
Shapes ==
  { [j \in 0..11 |-> 0],
    [j \in 0..11 |-> IF j = 0 THEN 1 ELSE 0],
    [j \in 0..11 |-> IF j \in {0, 6} THEN 1 ELSE 0],
    [j \in 0..11 |-> IF j \in {0, 7} THEN 1 ELSE 0],
    [j \in 0..11 |-> IF j = 0 THEN 2 ELSE IF j \in {4, 7} THEN 1 ELSE 0],
    [j \in 0..11 |-> IF j \in {0, 2, 4, 5, 7, 9, 11} THEN 1 ELSE 0],
    [j \in 0..11 |-> 1] }

\* every transposition of every shape
ChromaVectors == {ShiftUp(w, n) : w \in Shapes, n \in 0..11}

\* detectKey, with the histogram calculateChroma has counted given
ClassifyChroma(c, w) ==
  /\ pc[c] = "idle"
  /\ chroma' = [chroma EXCEPT ![c] = Normalize(w)]
  /\ keyResult' = [keyResult EXCEPT ![c] = detectKeyFrom(chroma'[c])]
  /\ pc' = [pc EXCEPT ![c] = "done"]
  /\ UNCHANGED <<samples, sampleRate, tempo, energy, analysis, i, peaks,
                 waveform, error>>

NextKey ==
  /\ \E c \in Calls :
       \/ \E w \in ChromaVectors : ClassifyChroma(c, w)
       \/ Settle(c)
  /\ UNCHANGED <<orch, acr, limiter, fft, app>>

SpecKey == Init /\ [][NextKey]_vars

(***************************************************************************)
(* Properties                                                              *)
(***************************************************************************)
\* the call was given a non-empty buffer and a positive sample rate
WellFormed(c) == samples[c].len > 0 /\ sampleRate[c] > 0

\* every sample of the buffer is in [-1, 1]
UnitNormalized(b) == \A j \in 0..(Min(b.len, Len(b.cyc)) - 1) : Abs(At(b, j)) <= 1

\* every sample of the buffer is 0
Silent(b) == \A j \in 0..(Min(b.len, Len(b.cyc)) - 1) : At(b, j) = 0

Analysed(c) == analysis[c] # None

\* C1: for a non-empty buffer and a positive sample rate, the tempo of the
\* returned analysis is an integer in [60, 200]
C1_TempoInRange ==
  \A c \in Calls : Analysed(c) /\ WellFormed(c) => analysis[c].tempo \in 60..200

\* C1 witness: a click train with at least two onsets was analysed and its
\* tempo is neither a clamp limit nor the default
C1_Witness ==
  \E c \in Calls :
    /\ Analysed(c) /\ WellFormed(c)
    /\ analysis[c].tempo = 100
    /\ Len(Onsets(samples[c], sampleRate[c])) >= 2

C3_ConfidenceInRange ==
  \A c \in Calls : Analysed(c) /\ samples[c].len > 0 => analysis[c].confidence \in 0..100

\* C3 witness: a pitched, audible buffer was analysed (no sub-confidence is
\* at its silent default)
C3_Witness ==
  \E c \in Calls :
    /\ Analysed(c) /\ samples[c].len > 0
    /\ energy[c].sq > 0
    /\ \E j \in DOMAIN chroma[c].w : chroma[c].w[j] > 0
    /\ analysis[c].confidence > 50

\* C4: an empty buffer or a non-positive sample rate is refused before any
\* computation: no analysis record and no waveform is produced for it
C4_InvalidInputRefused ==
  \A c \in Calls :
    pc[c] \notin {"idle", "failed"} /\ ~WellFormed(c)
      => analysis[c] = None /\ waveform[c] = None

\* C5: for a non-empty buffer and a positive sample rate the computation of
\* processAudioFile terminates, no loop runs for ever: every pass of the
\* waveform loop moves its variable i forward (the loop's condition reads
\* only i and the length, so a pass that leaves i in place repeats for ever)
C5_Terminates ==
  [][\A c \in Calls :
       pc[c] = "waveform" /\ pc'[c] = "waveform" /\ WellFormed(c) => i'[c] > i[c]]_vars

\* C6: the waveform has exactly min(targetPeaks, len) peaks; what the loop
\* has collected never makes it more
C6_PeakCount ==
  \A c \in Calls :
    /\ Len(SlicePeaks(peaks[c])) <= Min(targetPeaks, samples[c].len)
    /\ waveform[c] # None => Len(waveform[c].peaks) = Min(targetPeaks, samples[c].len)

\* the two buffers hold the same samples
SameSamples(a, b) ==
  /\ a.len = b.len
  /\ \A j \in 0..(a.len - 1) : At(a, j) = At(b, j)

C8_SilentDefaults ==
  \A c \in Calls :
    Analysed(c) /\ samples[c].len >= 1 /\ Silent(samples[c])
      => /\ analysis[c].energy = 0
         /\ DOMAIN chroma[c].w = 0..11
         /\ \A j \in 0..11 : chroma[c].w[j] = 0
         /\ keyResult[c].key = "C" /\ keyResult[c].mode = "major"
         /\ 100 * keyResult[c].confidence.num = 30 * keyResult[c].confidence.den
         /\ analysis[c].key = "C" /\ analysis[c].mode = "major"

\* C8 witness: a silent buffer with a full chroma chunk was analysed
C8_Witness ==
  \E c \in Calls :
    /\ Analysed(c) /\ Silent(samples[c])
    /\ samples[c].len >= ChromaChunkSize /\ sampleRate[c] = 44100

C10_ChromaNormalized ==
  \A c \in Calls :
    chroma[c] # None
      => /\ DOMAIN chroma[c].w = 0..11
         /\ \A j \in DOMAIN chroma[c].w : chroma[c].w[j] \in Nat
         /\ chroma[c].sum > 0
         /\ \/ SumFn(chroma[c].w, DOMAIN chroma[c].w) = chroma[c].sum
            \/ \A j \in DOMAIN chroma[c].w : chroma[c].w[j] = 0

\* C10 witness: two frames yielded a qualifying pitch
C10_Witness ==
  \E c \in Calls :
    /\ chroma[c] # None
    /\ chroma[c].sum = 2
    /\ SumFn(chroma[c].w, DOMAIN chroma[c].w) = 2

\* the place of a key name in keys, from 0
KeyIndex(k) == CHOOSE j \in 0..11 : keys[j + 1] = k

Classified(c) == chroma[c] # None /\ keyResult[c] # None

\* C11: when the histogram of call 2 is the histogram of call 1 moved up by
\* n semitones, the key of call 2 is the key of call 1 moved up by n
\* semitones, with the same mode and the same confidence.  Histograms the
\* move leaves as they are (for which no classifier can move the key) are
\* left out.
C11_RotationSymmetry ==
  \A n \in 0..11 :
    /\ Classified(1) /\ Classified(2)
    /\ chroma[2].w = ShiftUp(chroma[1].w, n)
    /\ chroma[2].w # chroma[1].w
    => /\ keyResult[2].key = keys[((KeyIndex(keyResult[1].key) + n) % 12) + 1]
       /\ keyResult[2].mode = keyResult[1].mode
       /\ keyResult[2].confidence = keyResult[1].confidence

\* C12: a histogram with all its weight on one pitch class p yields the key
\* named p
C12_PureToneKey ==
  \A c \in Calls : \A p \in 0..11 :
    /\ Classified(c)
    /\ chroma[c].w[p] > 0
    /\ \A j \in 0..11 : j # p => chroma[c].w[j] = 0
    => keyResult[c].key = keys[p + 1]

\* C16: the confidence the key classifier returns lies in [0.3, 0.95],
\* whatever the histogram
C16_KeyConfidenceClamped ==
  \A c \in Calls :
    Classified(c)
      => /\ keyResult[c].confidence.den > 0
         /\ 100 * keyResult[c].confidence.num >= 30 * keyResult[c].confidence.den
         /\ 100 * keyResult[c].confidence.num <= 95 * keyResult[c].confidence.den

\* the scores of a normalized histogram at one rotation, and all 24
ScoresAt(ch, shift) == {correlate(ch, majorProfile, shift), correlate(ch, minorProfile, shift)}
AllScores(ch) == UNION {ScoresAt(ch, sh) : sh \in 0..11}
MaxOf(S) == CHOOSE x \in S : \A y \in S : y <= x
HighestScore(ch) == MaxOf(AllScores(ch))
\* the rotations that reach the highest score
TiedShifts(ch) == LET h == HighestScore(ch) IN {sh \in 0..11 : h \in ScoresAt(ch, sh)}

\* C16 witness: a histogram on one pitch class was classified; its two best
\* scores differ (by 2 parts in 635) and the confidence is the floor
C16_Witness ==
  \E c \in Calls :
    /\ Classified(c)
    /\ SumFn(chroma[c].w, 0..11) = 1
    /\ HighestScore(chroma[c]) = 635
    /\ keyResult[c].confidence = [num |-> 30, den |-> 100]

\* C17: the detected key is the one of the lowest rotation index among the
\* rotations that reach the highest score
C17_LowestTiedRotation ==
  \A c \in Calls :
    Classified(c)
      => LET T == TiedShifts(chroma[c])
         IN \E sh \in T : /\ keyResult[c].key = keys[sh + 1]
                          /\ \A other \in T : sh <= other

\* C17 witness: two rotations tie on a histogram that is not empty, and the
\* detected key is not the initial C
C17_Witness ==
  \E c \in Calls :
    /\ Classified(c)
    /\ Cardinality(TiedShifts(chroma[c])) >= 2
    /\ HighestScore(chroma[c]) > 0
    /\ keyResult[c].key # "C"

\* detectTempo has returned and nothing has run since
TempoReturned(c) == pc[c] = "energy"

\* the buffer is a 20 second click train: six-window cycles with one
\* window that is not silent
IsClickTrain(b, rate) ==
  LET chunk == TempoChunkSize(rate)
  IN /\ chunk > 0
     /\ b.len = 20 * rate
     /\ Len(b.cyc) = 6 * chunk
     /\ \E j \in 1..Len(b.cyc) : b.cyc[j] # 0
     /\ \E phase \in 0..5 :
          \A j \in 1..Len(b.cyc) : (j - 1) \div chunk # phase => b.cyc[j] = 0

\* C13: for a 20 second click train with one click every 0.6 s the tempo
\* estimator returns a bpm within [95, 105]
C13_ClickTrainTempo ==
  \A c \in Calls :
    TempoReturned(c) /\ IsClickTrain(samples[c], sampleRate[c])
      => /\ tempo[c].num >= 95 * tempo[c].den
         /\ tempo[c].num <= 105 * tempo[c].den

\* C13 witness: the tempo of a click train whose click starts in the last
\* window of the cycle was estimated from at least ten onsets
C13_Witness ==
  \E c \in Calls :
    /\ TempoReturned(c) /\ IsClickTrain(samples[c], sampleRate[c])
    /\ sampleRate[c] = 20 /\ samples[c].cyc[11] # 0
    /\ tempo[c].den > 1
    /\ Len(Onsets(samples[c], sampleRate[c])) >= 10

\* C14: with fewer than 2 onsets the tempo estimator returns exactly 120,
\* and a value other than 120 comes from at least 2 onsets
C14_DefaultTempo ==
  \A c \in Calls :
    TempoReturned(c)
      => LET n == Len(Onsets(samples[c], sampleRate[c]))
         IN /\ n < 2 => tempo[c] = [num |-> 120, den |-> 1]
            /\ tempo[c].num # 120 * tempo[c].den => n >= 2

\* C14 witness: the tempo of a buffer that is not silent and shorter than
\* one window was estimated
C14_Witness ==
  \E c \in Calls :
    /\ TempoReturned(c)
    /\ samples[c].len > 0 /\ ~Silent(samples[c])
    /\ samples[c].len < TempoChunkSize(sampleRate[c])
    /\ tempo[c] = [num |-> 120, den |-> 1]

\* analyzeAudio has returned and generateWaveform has not run a pass yet
JustAnalysed(c) == pc[c] = "waveform" /\ i[c] = 0 /\ peaks[c] = <<>>

\* C15: for a non-empty buffer at a positive rate, the tempo sub-confidence
\* that enters the overall confidence is 0.6 when the tempo is the fallback
\* (fewer than 2 onsets) and 0.9 when it came from at least 2 onsets
C15_FallbackTempoConfidence ==
  \A c \in Calls :
    JustAnalysed(c) /\ WellFormed(c)
      => LET n == Len(Onsets(samples[c], sampleRate[c]))
         IN analysis[c].confidence =
              RoundConfidence(IF n < 2 THEN 60 ELSE 90,
                              EnergyConfidence(energy[c]), keyResult[c].confidence)

\* the two fractions are the same number
SameFraction(a, b) == a.num * b.den = b.num * a.den

\* the sum of the intervals that are left when the intervals are sorted and
\* the n div 4 lowest and the n div 4 highest are discarded: a value v fills
\* the sorted places lt(v) + 1 .. le(v)
TrimmedSum(intervals) ==
  LET n == Len(intervals)
      q == n \div 4
      V == {intervals[j] : j \in 1..n}
      lt(v) == Cardinality({j \in 1..n : intervals[j] < v})
      le(v) == Cardinality({j \in 1..n : intervals[j] <= v})
      kept == [v \in V |-> v * Max(0, Min(le(v), n - q) - Max(lt(v), q))]
  IN SumFn(kept, V)

\* C19: with at least 2 onsets the bpm is 60 divided by the trimmed mean of
\* the intervals between onsets (lowest and highest quartile discarded),
\* clamped to [60, 200]
C19_TrimmedMean ==
  \A c \in Calls :
    TempoReturned(c) /\ Len(Onsets(samples[c], sampleRate[c])) >= 2
      => LET intervals == Intervals(Onsets(samples[c], sampleRate[c]))
             n == Len(intervals)
         IN SameFraction(tempo[c],
                         ClampBpm(600 * (n - 2 * (n \div 4)), TrimmedSum(intervals)))

\* C20: every onset is a window above 60% of the envelope maximum, strictly
\* louder than both neighbours, and at least two windows after the onset
\* before it; onset times increase strictly
C20_OnsetConditions ==
  \A c \in Calls :
    TempoReturned(c)
      => LET E == Energies(samples[c], sampleRate[c])
             on == Onsets(samples[c], sampleRate[c])
             top == IF Len(E) > 0 THEN MaxRms(E) ELSE [sq |-> 0, n |-> 1]
         IN \A k \in 1..Len(on) :
              /\ on[k] >= 1 /\ on[k] + 2 <= Len(E)
              /\ RmsAboveThreshold(E[on[k] + 1], top)
              /\ RmsGreater(E[on[k] + 1], E[on[k]])
              /\ RmsGreater(E[on[k] + 1], E[on[k] + 2])
              /\ k > 1 => on[k] - on[k - 1] >= 2

\* C20 witness: onsets were found two windows apart, the least distance
C20_Witness ==
  \E c \in Calls :
    /\ TempoReturned(c)
    /\ LET on == Onsets(samples[c], sampleRate[c])
       IN Len(on) >= 3 /\ on[2] - on[1] = 2 /\ on[3] - on[2] > 2

\* what analyzeAudio returns for a buffer and a rate when nothing else runs:
\* its three detectors and the merge, applied to the input alone
ResultAlone(b, rate) ==
  analyzeAudio(detectTempo(b, rate), calculateEnergy(b), detectKey(b, rate))

\* C18: with the steps of two analyses interleaved in any order, each
\* analysis returns the result it returns when run alone
C18_NoCrossTalk ==
  \A c \in Calls :
    JustAnalysed(c) => analysis[c] = ResultAlone(samples[c], sampleRate[c])

\* C18 witness: the analysis of one buffer returns while the call for a
\* different buffer is in its waveform loop; the two results differ
C18_Witness ==
  /\ JustAnalysed(1)
  /\ pc[2] = "waveform" /\ i[2] > 0
  /\ ~SameSamples(samples[1], samples[2])
  /\ analysis[1].tempo = 200 /\ analysis[2].tempo = 100
  /\ analysis[1].energy # analysis[2].energy

\* C21: the energy envelope has one entry for every complete 100 ms
\* window of the whole buffer
C21_EnvelopeCoversBuffer ==
  \A c \in Calls :
    TempoReturned(c) /\ TempoChunkSize(sampleRate[c]) > 0
      => Len(Energies(samples[c], sampleRate[c]))
           = samples[c].len \div TempoChunkSize(sampleRate[c])

\* the largest entry of a sequence of numbers that is not empty
MaxOfSeq(s) == MaxOf({s[k] : k \in 1..Len(s)})

\* C22: for a buffer of at least targetPeaks samples the blocks of the
\* returned peaks cover the whole buffer, so the largest peak is the largest
\* |x| of the buffer
C22_PeaksCoverBuffer ==
  \A c \in Calls :
    waveform[c] # None /\ samples[c].len >= targetPeaks
      => /\ Len(waveform[c].peaks) * BlockSize(samples[c]) >= samples[c].len
         /\ MaxOfSeq(waveform[c].peaks) = MaxAbs(samples[c], 0, samples[c].len)

\* detectKey has returned and nothing has run since
KeyReturned(c) == pc[c] = "merge"

\* the frames of the buffer whose estimated pitch lies within [80, 800] Hz
FramesInBand(b, rate) ==
  {k \in 0..(Min(MaxChromaChunks, b.len \div ChromaChunkSize) - 1) :
     LET pitch == detectPitch(b, k * ChromaChunkSize, ChromaChunkSize, rate)
     IN pitch.num >= 80 * pitch.den /\ pitch.num <= 800 * pitch.den}

\* C23: only frames whose estimated pitch lies within [80, 800] Hz add
\* weight to the chroma histogram: the weight counted is the number of
\* such frames
C23_PitchBand ==
  \A c \in Calls :
    KeyReturned(c) /\ sampleRate[c] > 0
      => SumFn(chroma[c].w, DOMAIN chroma[c].w)
           = Cardinality(FramesInBand(samples[c], sampleRate[c]))

\* the number of the 24 rotation/mode pairs whose score is x
Multiplicity(ch, x) ==
  Cardinality({sh \in 0..11 : correlate(ch, majorProfile, sh) = x})
    + Cardinality({sh \in 0..11 : correlate(ch, minorProfile, sh) = x})

\* the second largest of the 24 scores, counted with multiplicity
SecondScore(ch) ==
  LET best == HighestScore(ch)
  IN IF Multiplicity(ch, best) >= 2 THEN best ELSE MaxOf(AllScores(ch) \ {best})

\* C24: the key confidence is (best - second) / best clamped into
\* [0.3, 0.95], for the largest and second largest of the 24 scores counted
\* with multiplicity, and 0.3 when best is not positive; the two scores the
\* loop ends with are this best and this second
C24_KeyConfidenceFormula ==
  \A c \in Calls :
    Classified(c)
      => LET best == HighestScore(chroma[c])
             gap == best - SecondScore(chroma[c])
             kept == KeyScan(chroma[c], 0,
                             [bestKey |-> "C", bestMode |-> "major",
                              bestScore |-> 0 - 100 * chroma[c].sum,
                              secondBestScore |-> 0 - 100 * chroma[c].sum])
         IN /\ kept.bestScore = best
            /\ kept.secondBestScore = best - gap
            /\ IF best <= 0 \/ 100 * gap < 30 * best
                 THEN SameFraction(keyResult[c].confidence, [num |-> 30, den |-> 100])
               ELSE IF 100 * gap > 95 * best
                 THEN SameFraction(keyResult[c].confidence, [num |-> 95, den |-> 100])
               ELSE SameFraction(keyResult[c].confidence, [num |-> gap, den |-> best])

\* C24 witness: a histogram whose highest score is positive and reached by
\* more than one rotation/mode pair was classified
C24_Witness ==
  \E c \in Calls :
    /\ Classified(c)
    /\ HighestScore(chroma[c]) > 0
    /\ Multiplicity(chroma[c], HighestScore(chroma[c])) >= 2
    /\ keyResult[c].key # "C"

\* ---------------------------------------------------------------------
\* MusicGenerationOrchestrator
\* ---------------------------------------------------------------------

maxRetries == 3
timeout == 120000
availabilityTimeout == 5000

\* the constructor's arguments: each key is given or left out
ApiKeys == [stableAudioKey : BOOLEAN, replicateKey : BOOLEAN]

\* config.retryAttempts: left out, or a number of attempts
RetryConfigs == {None} \cup {[retryAttempts |-> n] : n \in 0..maxRetries}

\* the services the constructor registers, in the order it pushes them
Services(k) ==
  (IF k.stableAudioKey THEN <<"Stable Audio">> ELSE <<>>)
    \o (IF k.replicateKey THEN <<"MusicGen">> ELSE <<>>)

\* retryAttempts = this.maxRetries when the config leaves it out
RetryAttempts(cfg) == IF cfg = None THEN maxRetries ELSE cfg.retryAttempts

\* the delay before the next attempt
Backoff(attempt) == (2 ^ attempt) * 1000

\* the catch block of an attempt stops the retry loop of the service at
\* once (a variant that never retries)
LastAttemptAlways(attempt, retryAttempts) == TRUE

\* the catch block of an attempt: the retry loop of the service ends
LastAttempt(attempt, retryAttempts) == attempt = retryAttempts

\* withTimeout whose timer never rejects (a variant without timeouts)
TimerNever(timeoutMs) == FALSE

\* withTimeout: the timer it sets rejects the race after timeoutMs
TimerRejects(timeoutMs) == timeoutMs >= 0

Failure ==
  [success |-> FALSE, error |-> "All music generation services failed",
   serviceName |-> "None", duration |-> 0]

\* the for-of loop moves to the service after orch.service, or falls out
\* of the loop to the final return; o holds the other fields to write
NextService(o) ==
  IF o.service + 1 > Len(o.services)
    THEN orch' = [o EXCEPT !.service = o.service + 1, !.attempt = 0,
                           !.pc = "returned", !.waitMs = 0,
                           !.settles = FALSE, !.result = Failure]
    ELSE \E s \in BOOLEAN :
           orch' = [o EXCEPT !.service = o.service + 1, !.attempt = 0,
                             !.pc = "available",
                             !.waitMs = availabilityTimeout, !.settles = s]

\* new MusicGenerationOrchestrator(stableAudioKey, replicateKey)
Constructor(k) ==
  /\ orch.pc \in {"idle", "returned"}
  /\ orch' = [pc |-> "constructed", services |-> Services(k),
              retryAttempts |-> 0, service |-> 0, attempt |-> 0,
              waitMs |-> 0, settles |-> FALSE, unavailable |-> {},
              failed |-> [n \in 1..Len(Services(k)) |-> 0],
              timeouts |-> 0, result |-> None]

\* generateMusic(config) up to its first await
GenerateMusic(cfg) ==
  /\ orch.pc \in {"constructed", "returned"}
  /\ NextService([orch EXCEPT !.retryAttempts = RetryAttempts(cfg),
                              !.service = 0, !.unavailable = {},
                              !.failed = [n \in 1..Len(orch.services) |-> 0],
                              !.timeouts = 0, !.result = None])

\* the retry loop of the current service starts, or does not run at all
StartAttempts(o) ==
  IF 1 <= o.retryAttempts
    THEN \E s \in BOOLEAN :
           orch' = [o EXCEPT !.attempt = 1, !.pc = "generate",
                             !.waitMs = timeout, !.settles = s]
    ELSE NextService(o)

\* service.isAvailable() resolved before the timer
IsAvailableResolved(isAvailable) ==
  /\ orch.pc = "available"
  /\ orch.settles
  /\ IF isAvailable
       THEN StartAttempts(orch)
       ELSE NextService([orch EXCEPT !.unavailable = @ \cup {orch.service}])

\* service.isAvailable() rejected before the timer: the outer catch
IsAvailableRejected ==
  /\ orch.pc = "available"
  /\ orch.settles
  /\ NextService([orch EXCEPT !.unavailable = @ \cup {orch.service}])

\* the 5 second timer rejected first: the outer catch
IsAvailableTimedOut ==
  /\ orch.pc = "available"
  /\ TimerRejects(orch.waitMs)
  /\ NextService([orch EXCEPT !.unavailable = @ \cup {orch.service},
                              !.timeouts = @ + 1])

\* service.generateMusic resolved before the timer
GenerateResolved ==
  /\ orch.pc = "generate"
  /\ orch.settles
  /\ orch' = [orch EXCEPT !.pc = "returned", !.waitMs = 0,
                          !.settles = FALSE,
                          !.result =
                            [success |-> TRUE, audioUrl |-> "url",
                             serviceName |-> orch.services[orch.service],
                             duration |-> 30]]

\* the catch block of an attempt
AttemptFailed(timedOut) ==
  LET o == [orch EXCEPT !.failed[orch.service] = @ + 1,
                        !.timeouts = IF timedOut THEN @ + 1 ELSE @] IN
    IF LastAttempt(orch.attempt, orch.retryAttempts)
      THEN NextService(o)
      ELSE orch' = [o EXCEPT !.pc = "delay", !.settles = TRUE,
                             !.waitMs = Backoff(orch.attempt)]

\* service.generateMusic rejected before the timer
GenerateRejected ==
  /\ orch.pc = "generate"
  /\ orch.settles
  /\ AttemptFailed(FALSE)

\* the 2 minute timer rejected first
GenerateTimedOut ==
  /\ orch.pc = "generate"
  /\ TimerRejects(orch.waitMs)
  /\ AttemptFailed(TRUE)

\* the backoff delay is over: attempt++ and the loop condition
DelayElapsed ==
  /\ orch.pc = "delay"
  /\ IF orch.attempt + 1 <= orch.retryAttempts
       THEN \E s \in BOOLEAN :
              orch' = [orch EXCEPT !.attempt = orch.attempt + 1,
                                   !.pc = "generate", !.waitMs = timeout,
                                   !.settles = s]
       ELSE NextService(orch)

\* every step of a call of generateMusic after its start
OrchStep ==
  \/ \E b \in BOOLEAN : IsAvailableResolved(b)
  \/ IsAvailableRejected
  \/ IsAvailableTimedOut
  \/ GenerateResolved
  \/ GenerateRejected
  \/ GenerateTimedOut
  \/ DelayElapsed

NextOrch ==
  /\ \/ \E k \in ApiKeys : Constructor(k)
     \/ \E cfg \in RetryConfigs : GenerateMusic(cfg)
     \/ OrchStep
  /\ UNCHANGED <<audioVars, acr, limiter, fft, app>>

SpecOrch == Init /\ [][NextOrch]_vars

\* timers fire and settled promises run their continuations
FairOrch == SpecOrch /\ WF_orch(OrchStep)

\* a call of generateMusic is under way
Generating == orch.pc \in {"available", "generate", "delay"}

\* the call returned success
Succeeded == orch.pc = "returned" /\ orch.result # None /\ orch.result.success

\* the call returned success=false
Failed == orch.pc = "returned" /\ orch.result = Failure

\* service n was given up: found unavailable, or retryAttempts of its
\* attempts failed
GivenUp(n) == n \in orch.unavailable \/ orch.failed[n] = orch.retryAttempts

\* service n was not touched by the call
Untried(n) == n \notin orch.unavailable /\ orch.failed[n] = 0

\* the generation attempts the call has started
Attempts ==
  SumSeq(orch.failed, 1, Len(orch.failed)) + (IF orch.pc = "generate" \/ Succeeded THEN 1 ELSE 0)

\* C25: generateMusic tries its services in registration order, Stable
\* Audio before MusicGen; it falls back to the next service only after the
\* current one is unavailable or has failed retryAttempts attempts; success
\* carries the name of the service of the first successful attempt;
\* success=false is returned only when every service was given up without
\* a successful attempt.
C25_FallbackOrder ==
  /\ orch.services \in {<<>>, <<"Stable Audio">>, <<"MusicGen">>,
                        <<"Stable Audio", "MusicGen">>}
  /\ Generating \/ Succeeded =>
       /\ orch.service \in 1..Len(orch.services)
       /\ \A n \in 1..Len(orch.services) :
            /\ n < orch.service => GivenUp(n)
            /\ n > orch.service => Untried(n)
       /\ orch.service \notin orch.unavailable
       /\ orch.failed[orch.service] =
            (IF orch.pc = "available" THEN 0
             ELSE IF orch.pc = "delay" THEN orch.attempt
             ELSE orch.attempt - 1)
  /\ Succeeded =>
       /\ orch.result.serviceName = orch.services[orch.service]
       /\ orch.failed[orch.service] < orch.retryAttempts
  /\ Failed =>
       /\ \A n \in 1..Len(orch.services) : GivenUp(n)
       /\ Attempts = SumSeq(orch.failed, 1, Len(orch.failed))
  /\ orch.pc = "returned" => Succeeded \/ Failed

\* MusicGen succeeded at its second attempt after Stable Audio failed
\* three attempts
C25_Witness ==
  /\ Succeeded
  /\ orch.services = <<"Stable Audio", "MusicGen">>
  /\ orch.result.serviceName = "MusicGen"
  /\ orch.retryAttempts = 3
  /\ orch.failed = <<3, 1>>

\* C26: generateMusic always eventually returns, also when a service's
\* promise never settles: the availability check and each generation
\* attempt are abandoned by their timers, and the call starts at most
\* (number of services) x retryAttempts generation attempts.
C26_AlwaysReturns ==
  /\ [](Attempts <= Len(orch.services) * orch.retryAttempts)
  /\ (Generating ~> orch.pc = "returned")

\* a call returned although six of its attempts never settled
C26_Witness ==
  /\ Failed
  /\ Len(orch.services) = 2
  /\ orch.retryAttempts = 3
  /\ orch.timeouts = 6
  /\ Attempts = 6

\* ---------------------------------------------------------------------
\* The audio-analysis edge function: processAcrCloudResponse
\* ---------------------------------------------------------------------

\* Tempo is a whole number of beats per minute or NaN; energy is held in
\* ten-thousandths; confidence in hundredths.
NaN == -2

\* musicData.key: absent, or a value and a scale (either may be empty)
AcrKeys ==
  {None, [value |-> "a", scale |-> "minor"], [value |-> "f#", scale |-> ""],
   [value |-> "", scale |-> "major"]}

\* musicData.bpm: absent, a decimal string (in tenths), or text that
\* parseFloat cannot read
AcrBpms ==
  {[kind |-> "absent"], [kind |-> "text"]}
    \cup {[kind |-> "number", tenths |-> t] : t \in {300, 1275, 5000}}

\* musicData.genres: absent, empty, a first genre with a name, or a first
\* genre without one
AcrGenres ==
  {[kind |-> "absent"], [kind |-> "empty"], [kind |-> "unnamed"]}
    \cup {[kind |-> "named", name |-> g] : g \in {"Rock", "jazz", "pop"}}

\* musicData.score
AcrScores == {0, 5, 80, 250}

AcrMusic == [score : AcrScores, key : AcrKeys, bpm : AcrBpms, genres : AcrGenres]

\* The parsed response: status is absent or carries a code; metadata.music
\* is absent, an empty array, or an array whose first element is a match.
AcrResponses ==
  [status : {None, [code |-> 0], [code |-> 1001]},
   music : {None, [items |-> <<>>]} \cup {[items |-> <<m>>] : m \in AcrMusic}]

\* Math.random() in hundredths
Randoms == {0, 50, 99}

\* value.charAt(0).toUpperCase() + value.slice(1)
Capitalize(value) ==
  IF value = "a" THEN "A" ELSE IF value = "f#" THEN "F#" ELSE value

\* name.toLowerCase()
ToLowerCase(name) == IF name = "Rock" THEN "rock" ELSE name

\* Math.round(parseFloat(bpm)) of a decimal string given in tenths
RoundBpm(bpm) ==
  IF bpm.kind = "number" THEN (bpm.tenths + 5) \div 10 ELSE NaN

\* Math.max(60, Math.min(200, tempo)); NaN stays NaN
ClampTempo(t) == IF t = NaN THEN NaN ELSE Max(60, Min(200, t))

\* the energy drawn for the genre, in ten-thousandths
GenreEnergy(genreName, rnd) ==
  IF genreName \in {"dance", "edm", "electronic", "hip hop", "rock"}
    THEN Min(9500, rnd * 30 + 6500)
  ELSE IF genreName \in {"classical", "ambient", "chill", "jazz"}
    THEN Min(6500, rnd * 30 + 3500)
  ELSE Min(8500, rnd * 40 + 4500)

\* processAcrCloudResponse(data), with rnd the value Math.random() gives
processAcrCloudResponse(data, rnd) ==
  LET defaults == [key |-> "C", mode |-> "major", tempo |-> 120,
                   energy |-> 7500, confidence |-> 0] IN
    IF data.status = None THEN defaults       \* data.status.code throws
    ELSE IF data.status.code # 0 \/ data.music = None THEN defaults
    ELSE IF data.music.items = <<>> THEN defaults  \* musicData.score throws
    ELSE
      LET musicData == data.music.items[1]
          confidence == musicData.score
          key == IF musicData.key # None /\ musicData.key.value # ""
                   THEN Capitalize(musicData.key.value) ELSE "C"
          mode == IF musicData.key # None /\ musicData.key.scale = "minor"
                    THEN "minor" ELSE "major"
          bpm == IF musicData.bpm.kind = "absent" THEN 120
                   ELSE RoundBpm(musicData.bpm)
      IN
        IF musicData.genres.kind = "unnamed"
          THEN \* name.toLowerCase() throws: the catch returns the locals
               [key |-> key, mode |-> mode, tempo |-> bpm,
                energy |-> 7500, confidence |-> confidence]
          ELSE
            LET drawn ==
                  IF musicData.genres.kind = "named"
                    THEN GenreEnergy(ToLowerCase(musicData.genres.name), rnd)
                    ELSE 7500
            IN [key |-> key, mode |-> mode, tempo |-> ClampTempo(bpm),
                energy |-> Max(1000, Min(10000, drawn)),
                confidence |-> Max(10, Min(100, confidence))]

\* a call of processAcrCloudResponse
ProcessAcrCloudResponse(data, rnd) ==
  /\ acr = None
  /\ acr' = [data |-> data, rnd |-> rnd,
             result |-> processAcrCloudResponse(data, rnd)]
  /\ UNCHANGED <<audioVars, orch, limiter, fft, app>>

\* the request handler sends the result and the request is over
AcrRespond ==
  /\ acr # None
  /\ acr' = None
  /\ UNCHANGED <<audioVars, orch, limiter, fft, app>>

NextAcr ==
  \/ \E data \in AcrResponses, rnd \in Randoms :
       ProcessAcrCloudResponse(data, rnd)
  \/ AcrRespond

SpecAcr == Init /\ [][NextAcr]_vars

\* C27: on every path processAcrCloudResponse returns tempo in [60, 200],
\* energy in [0.1, 1.0] and confidence in [0.1, 1.0].
C27_RangesOnEveryPath ==
  acr # None =>
    /\ acr.result.tempo \in 60..200
    /\ acr.result.energy \in 1000..10000
    /\ acr.result.confidence \in 10..100

\* ---------------------------------------------------------------------
\* audio-service: uploadAudio and its rate limit
\* ---------------------------------------------------------------------

RATE_LIMIT_WINDOW == 60000
MAX_REQUESTS == 5
MAX_UPLOAD_SIZE == 5242880

\* the options of uploadAudio: a file, and a userId or none
UploadFiles ==
  [type : {"audio/mpeg", "video/mp4"},
   size : {MAX_UPLOAD_SIZE, MAX_UPLOAD_SIZE + 1}]

UploadOptions ==
  [file : UploadFiles] \cup [file : UploadFiles, userId : Users]

\* userId = 'anonymous' when the options leave it out
UserIdOf(opt) ==
  IF "userId" \in DOMAIN opt THEN opt.userId ELSE "anonymous"

\* audioUploadSchema.parse({ file }) succeeds
ValidUpload(file) ==
  /\ file.type \in {"audio/mpeg", "audio/wav", "audio/mp3"}
  /\ file.size <= MAX_UPLOAD_SIZE

\* rateLimitMap.get(userId) || 0
GetRequests(map, userId) ==
  IF userId \in DOMAIN map THEN map[userId] ELSE 0

\* rateLimitMap.set(userId, n)
SetRequests(map, userId, n) ==
  [u \in DOMAIN map \cup {userId} |-> IF u = userId THEN n ELSE map[u]]

\* a limit that lets one request more through (a variant)
LimitReachedAbove(userRequests) == userRequests > MAX_REQUESTS

\* checkRateLimit: userRequests >= MAX_REQUESTS
LimitReached(userRequests) == userRequests >= MAX_REQUESTS

\* the length of a tick in milliseconds
TickMs == RATE_LIMIT_WINDOW \div WindowTicks

\* the delay of the timer checkRateLimit sets, in ticks
TimerTicks == RATE_LIMIT_WINDOW \div TickMs

\* The call fails validation: ZodError, rethrown as VALIDATION_ERROR
\* before checkRateLimit is reached.
UploadInvalid(opt) ==
  /\ ~ValidUpload(opt.file)
  /\ limiter' = [limiter EXCEPT
       !.last = [kind |-> "VALIDATION_ERROR", userId |-> UserIdOf(opt),
                 before |-> limiter.map]]

\* checkRateLimit returns false: RATE_LIMIT_EXCEEDED
UploadRefused(opt) ==
  /\ ValidUpload(opt.file)
  /\ LimitReached(GetRequests(limiter.map, UserIdOf(opt)))
  /\ limiter' = [limiter EXCEPT
       !.last = [kind |-> "RATE_LIMIT_EXCEEDED", userId |-> UserIdOf(opt),
                 before |-> limiter.map]]

\* checkRateLimit counts the request, sets its timer and returns true
UploadAdmitted(opt) ==
  LET u == UserIdOf(opt) IN
    /\ ValidUpload(opt.file)
    /\ ~LimitReached(GetRequests(limiter.map, u))
    /\ limiter' =
         [map |-> SetRequests(limiter.map, u, GetRequests(limiter.map, u) + 1),
          timers |-> [limiter.timers EXCEPT ![u][TimerTicks] = @ + 1],
          admitted |-> [limiter.admitted EXCEPT ![u][0] = @ + 1],
          last |-> [kind |-> "admitted", userId |-> u,
                    before |-> limiter.map]]

\* uploadAudio(options)
UploadAudio(opt) ==
  /\ \/ UploadInvalid(opt)
     \/ UploadRefused(opt)
     \/ UploadAdmitted(opt)
  /\ UNCHANGED <<audioVars, orch, acr, fft, app>>

\* the callback of a timer of user u whose delay is over
TimerExpires(u) ==
  /\ limiter.timers[u][0] > 0
  /\ limiter' =
       [limiter EXCEPT
          !.map = SetRequests(limiter.map, u,
                              Max(0, GetRequests(limiter.map, u) - 1)),
          !.timers[u][0] = @ - 1,
          !.last = [kind |-> "timer", userId |-> u, before |-> limiter.map]]
  /\ UNCHANGED <<audioVars, orch, acr, fft, app>>

\* one tick of time passes; a timer may run later than its delay, never
\* earlier
Tick ==
  /\ limiter' =
       [limiter EXCEPT
          !.timers = [u \in Users |-> [r \in 0..WindowTicks |->
                        IF r = 0 THEN limiter.timers[u][0] + limiter.timers[u][1]
                        ELSE IF r = WindowTicks THEN 0
                        ELSE limiter.timers[u][r + 1]]],
          !.admitted = [u \in Users |-> [a \in 0..(WindowTicks - 1) |->
                          IF a = 0 THEN 0 ELSE limiter.admitted[u][a - 1]]],
          !.last = [kind |-> "tick", userId |-> "anonymous",
                    before |-> limiter.map]]
  /\ UNCHANGED <<audioVars, orch, acr, fft, app>>

NextLimit ==
  \/ \E opt \in UploadOptions : UploadAudio(opt)
  \/ \E u \in Users : TimerExpires(u)
  \/ Tick

SpecLimit == Init /\ [][NextLimit]_vars

\* the requests of user u admitted within the last window
AdmittedInWindow(u) ==
  SumSeq([a \in 1..WindowTicks |-> limiter.admitted[u][a - 1]], 1, WindowTicks)

\* the timers of user u that have not run yet
PendingTimers(u) ==
  SumSeq([r \in 1..(WindowTicks + 1) |-> limiter.timers[u][r - 1]],
         1, WindowTicks + 1)

\* C28: for each userId the counter stays within [0, 5]; at most 5
\* requests are admitted in any window of 60 seconds; a request refused
\* with RATE_LIMIT_EXCEEDED or rejected by file validation leaves the
\* counter unchanged; the counter of a user changes only by that user's
\* own requests and timers.
C28_RateLimit ==
  /\ \A u \in Users :
       /\ GetRequests(limiter.map, u) \in 0..MAX_REQUESTS
       /\ GetRequests(limiter.map, u) = PendingTimers(u)
       /\ AdmittedInWindow(u) <= MAX_REQUESTS
  /\ limiter.last # None =>
       /\ limiter.last.kind \in {"RATE_LIMIT_EXCEEDED", "VALIDATION_ERROR", "tick"}
            => limiter.map = limiter.last.before
       /\ limiter.last.kind = "RATE_LIMIT_EXCEEDED"
            => GetRequests(limiter.map, limiter.last.userId) = MAX_REQUESTS
       /\ limiter.last.kind = "admitted"
            => GetRequests(limiter.map, limiter.last.userId)
                 = GetRequests(limiter.last.before, limiter.last.userId) + 1
       /\ limiter.last.kind = "timer"
            => GetRequests(limiter.map, limiter.last.userId)
                 = GetRequests(limiter.last.before, limiter.last.userId) - 1
       /\ \A u \in Users \ {limiter.last.userId} :
            GetRequests(limiter.map, u) = GetRequests(limiter.last.before, u)

\* a sixth request of a user is refused while the other user, with two
\* requests counted, is not affected
C28_Witness ==
  /\ limiter.last # None
  /\ limiter.last.kind = "RATE_LIMIT_EXCEEDED"
  /\ limiter.last.userId = "u1"
  /\ AdmittedInWindow("u1") = MAX_REQUESTS
  /\ GetRequests(limiter.map, "anonymous") = 2

\* ---------------------------------------------------------------------
\* The FFT-variant hook: detectTempo, detectOnsets, calculateRMSEnergy
\* ---------------------------------------------------------------------

\* Samples are held in eighths (1 stands for 0.125).
MaxFftLen == 11

FftAmps == {0, 1}

FftRates == {0, 1, 2}

RECURSIVE FftBuffersOf(_)
FftBuffersOf(n) ==
  IF n = 0 THEN {<<>>}
  ELSE {Append(b, a) : b \in FftBuffersOf(n - 1), a \in FftAmps}

FftBuffers == UNION {FftBuffersOf(n) : n \in 0..MaxFftLen}

\* the sum of the squares of samples[lo + 1 .. hi], in sixty-fourths
RECURSIVE FftSumSq(_, _, _)
FftSumSq(s, lo, hi) ==
  IF hi <= lo THEN 0 ELSE s[hi] * s[hi] + FftSumSq(s, lo, hi - 1)

\* calculateRMSEnergy(samples.slice(at, at + windowSize)) > threshold, with
\* threshold = 0.1: sqrt(sum / (64 n)) > 1/10
FftEnergyAboveThreshold(s, at, windowSize) ==
  100 * FftSumSq(s, at, at + windowSize) > 64 * windowSize

\* a hop of an eighth of the window (a variant)
HopSizeEighth(windowSize) == windowSize \div 8

\* hopSize = Math.floor(windowSize / 4)
HopSize(windowSize) == windowSize \div 4

\* detectOnsets from position at on; an onset is kept as its sample index,
\* its time is the index divided by sampleRate
RECURSIVE detectOnsets(_, _, _, _)
detectOnsets(s, at, windowSize, hopSize) ==
  IF ~(at < Len(s) - windowSize) THEN <<>>
  ELSE (IF FftEnergyAboveThreshold(s, at, windowSize) THEN <<at>> ELSE <<>>)
         \o detectOnsets(s, at + hopSize, windowSize, hopSize)

\* the loop of detectOnsets comes to an end
OnsetLoopEnds(s, windowSize, hopSize) ==
  hopSize > 0 \/ ~(0 < Len(s) - windowSize)

\* Math.max(60, Math.min(200, bpm)) of bpm = num / den (den > 0), as a
\* fraction; the bounds themselves are written 60/1 and 200/1
FftClamp(num, den) ==
  IF num <= 60 * den THEN [num |-> 60, den |-> 1]
  ELSE IF num >= 200 * den THEN [num |-> 200, den |-> 1]
  ELSE [num |-> num, den |-> den]

\* detectTempo(samples, sampleRate) of the hook, as a fraction: the
\* intervals sum to (last - first) / sampleRate seconds
fftDetectTempo(s, rate) ==
  LET windowSize == rate * 4
      onsets == detectOnsets(s, 0, windowSize, HopSize(windowSize))
  IN IF Len(onsets) < 2 THEN [num |-> 120, den |-> 1]
     ELSE FftClamp(60 * (Len(onsets) - 1) * rate,
                   SumSeq(Intervals(onsets), 1, Len(onsets) - 1))

\* a call of detectTempo that returns
FftDetectTempo(s, rate) ==
  /\ fft = None
  /\ OnsetLoopEnds(s, rate * 4, HopSize(rate * 4))
  /\ fft' = [samples |-> s, sampleRate |-> rate, returned |-> TRUE,
             onsets |-> detectOnsets(s, 0, rate * 4, HopSize(rate * 4)),
             result |-> fftDetectTempo(s, rate)]
  /\ UNCHANGED <<audioVars, orch, acr, limiter, app>>

\* a call of detectTempo whose onset loop never ends (hopSize = 0)
FftDetectTempoLoops(s, rate) ==
  /\ fft = None
  /\ ~OnsetLoopEnds(s, rate * 4, HopSize(rate * 4))
  /\ fft' = [samples |-> s, sampleRate |-> rate, returned |-> FALSE]
  /\ UNCHANGED <<audioVars, orch, acr, limiter, app>>

\* the hook is used for the next file
FftNextFile ==
  /\ fft # None
  /\ fft' = None
  /\ UNCHANGED <<audioVars, orch, acr, limiter, app>>

NextFft ==
  \/ /\ fft = None
     /\ \E s \in FftBuffers, rate \in FftRates :
          \/ FftDetectTempo(s, rate)
          \/ FftDetectTempoLoops(s, rate)
  \/ FftNextFile

SpecFft == Init /\ [][NextFft]_vars

\* the analysis windows of the buffer whose energy exceeds the threshold:
\* window k starts k seconds into the buffer and is 4 seconds long
LoudWindows(s, rate) ==
  {k \in 0..Len(s) :
     /\ k * rate < Len(s) - 4 * rate
     /\ FftEnergyAboveThreshold(s, k * rate, 4 * rate)}

\* C29: for an integer sample rate the hook's detectTempo returns 120
\* when fewer than 2 analysis windows exceed the 0.1 energy threshold and
\* exactly 60 otherwise; onset times are whole seconds.
C29_FftTempo ==
  fft # None /\ fft.returned =>
    /\ fft.result \in {[num |-> 120, den |-> 1], [num |-> 60, den |-> 1]}
    /\ fft.result.num = 120
         <=> Cardinality(LoudWindows(fft.samples, fft.sampleRate)) < 2
    /\ \A n \in 1..Len(fft.onsets) :
         fft.sampleRate > 0 => fft.onsets[n] % fft.sampleRate = 0

\* three loud windows one and two seconds apart: mean interval 1.5 s,
\* 40 bpm, returned as 60
C29_Witness ==
  /\ fft # None
  /\ fft.returned
  /\ fft.sampleRate = 1
  /\ fft.onsets = <<0, 1, 3>>
  /\ fft.result.num = 60

\* ---------------------------------------------------------------------
\* App: the screen state machine
\* ---------------------------------------------------------------------

\* the setProgress(0) timers that may be pending at once
MaxTimers == 2

\* event.target.files: no file chosen, or the first file
ChosenFiles == {None, [name |-> "a.mp3"], [name |-> "b.wav"]}

\* err.message of a rejected processAudioFile
AnalysisErrors ==
  {"File too large. Please use files smaller than 50MB.",
   "Unable to decode audio data"}

\* the ways the call of the composer function fails: error returned,
\* data.success false with an error text, or without one
GenerationErrors ==
  {"Stable Audio request failed", "Missing API key",
   "Edge Function returned a non-2xx status code", "Generation failed"}

\* the message shown for a failed generation
ErrorMessage(message) ==
  IF message = "Stable Audio request failed"
    THEN "High-quality music generation is temporarily unavailable. Please try again in a few minutes."
  ELSE IF message = "Missing API key"
    THEN "Professional AI music service requires proper configuration. Please check your API setup."
  ELSE "Professional music generation failed. Please try again."

\* a call of a state setter that has not been rendered yet
Setter(field, value) == [set |-> field, to |-> value]

\* the setters handleFileUpload calls after processAudioFile resolved
OnAnalysed(file) ==
  <<Setter("progress", 100), Setter("analysis", [of |-> file.name]),
    Setter("sourceFile", [name |-> file.name]), Setter("state", "analyzed")>>

\* the catch block of handleFileUpload
OnAnalysisFailed(message) ==
  <<Setter("error", [message |-> message]), Setter("state", "import")>>

\* the setters handleGenerate calls after a successful response
OnGenerated ==
  <<Setter("progress", 90), Setter("generatedFile", [name |-> "generated"]),
    Setter("progress", 100), Setter("state", "completed")>>

\* a catch block that sends the user back to the import screen (a variant)
OnGenerationFailedToImport(message) ==
  <<Setter("error", [message |-> ErrorMessage(message)]),
    Setter("state", "import")>>

\* the catch block of handleGenerate
OnGenerationFailed(message) ==
  <<Setter("error", [message |-> ErrorMessage(message)]),
    Setter("state", "analyzed")>>

\* no handler is running and every setter called has been rendered
Rendered == app.todo = <<>>

\* the buttons of the import screen: setMode(m)
SetMode(m) ==
  /\ Rendered
  /\ app.state = "import"
  /\ app' = [app EXCEPT !.mode = m]

\* the buttons of the import screen: setInstrument or setGroup
SelectItem(item) ==
  /\ Rendered
  /\ app.state = "import"
  /\ IF app.mode = "solo"
       THEN /\ item \in {"saxophone", "harmonica", "steelpan", "electric-guitar"}
            /\ app' = [app EXCEPT !.instrument = item]
       ELSE /\ item \in {"orchestra", "soul-band"}
            /\ app' = [app EXCEPT !.group = item]

\* handleFileUpload up to its await; the input is on the import screen
HandleFileUpload(file) ==
  /\ Rendered
  /\ app.state = "import"
  /\ app.timers < MaxTimers
  /\ IF file = None
       THEN app' = app
       ELSE app' = [app EXCEPT !.state = "analyzing", !.error = None,
                               !.progress = 10, !.file = file,
                               !.awaiting = "processAudioFile",
                               !.last = "upload"]

\* processAudioFile resolved
AnalysisResolved ==
  /\ app.awaiting = "processAudioFile"
  /\ app' = [app EXCEPT !.awaiting = "none", !.todo = OnAnalysed(app.file),
                        !.timers = @ + 1, !.last = "analysed"]

\* processAudioFile rejected
AnalysisRejected(message) ==
  /\ app.awaiting = "processAudioFile"
  /\ app' = [app EXCEPT !.awaiting = "none",
                        !.todo = OnAnalysisFailed(message),
                        !.timers = @ + 1, !.last = "analysisFailed"]

\* handleGenerate up to its await; the button is on the analysed screen
HandleGenerate ==
  /\ Rendered
  /\ app.state = "analyzed" /\ app.analysis # None /\ app.sourceFile # None
  /\ app.timers < MaxTimers
  /\ app' = [app EXCEPT !.state = "generating", !.error = None,
                        !.progress = 30, !.awaiting = "invoke",
                        !.last = "generate"]

\* the composer function answered with success
GenerationResolved ==
  /\ app.awaiting = "invoke"
  /\ app' = [app EXCEPT !.awaiting = "none", !.todo = OnGenerated,
                        !.timers = @ + 1, !.last = "generated"]

\* the composer function failed
GenerationFailed(message) ==
  /\ app.awaiting = "invoke"
  /\ app' = [app EXCEPT !.awaiting = "none",
                        !.todo = OnGenerationFailed(message),
                        !.timers = @ + 1, !.last = "generationFailed"]

\* React renders the next setter called after an await
ApplySetter ==
  /\ app.todo # <<>>
  /\ app' = [app EXCEPT ![Head(app.todo).set] = Head(app.todo).to,
                        !.todo = Tail(app.todo)]

\* reset; the button is on the completed screen
Reset ==
  /\ Rendered
  /\ app.state = "completed" /\ app.generatedFile # None
  /\ app' = [app EXCEPT !.state = "import", !.analysis = None,
                        !.sourceFile = None, !.generatedFile = None,
                        !.error = None, !.progress = 0, !.last = "reset"]

\* setTimeout(() => setProgress(0), 1000) of a finally block
ProgressTimer ==
  /\ Rendered
  /\ app.timers > 0
  /\ app' = [app EXCEPT !.progress = 0, !.timers = @ - 1]

NextApp ==
  /\ \/ \E m \in {"solo", "group"} : SetMode(m)
     \/ \E item \in {"saxophone", "harmonica", "steelpan", "electric-guitar",
                     "orchestra", "soul-band"} : SelectItem(item)
     \/ \E file \in ChosenFiles : HandleFileUpload(file)
     \/ AnalysisResolved
     \/ \E message \in AnalysisErrors : AnalysisRejected(message)
     \/ HandleGenerate
     \/ GenerationResolved
     \/ \E message \in GenerationErrors : GenerationFailed(message)
     \/ ApplySetter
     \/ Reset
     \/ ProgressTimer
  /\ UNCHANGED <<audioVars, orch, acr, limiter, fft>>

SpecApp == Init /\ [][NextApp]_vars

\* C30: on every screen, state in {analyzed, generating, completed}
\* implies a non-null analysis and state = completed a non-null
\* generatedFile; once rendered, a failed analysis has returned to
\* 'import' and a failed generation to 'analyzed', each with error set.
C30_ScreenStates ==
  /\ app.state \in {"import", "analyzing", "analyzed", "generating", "completed"}
  /\ app.state \in {"analyzed", "generating", "completed"} => app.analysis # None
  /\ app.state = "completed" => app.generatedFile # None
  /\ Rendered /\ app.last = "analysisFailed" =>
       app.state = "import" /\ app.error # None
  /\ Rendered /\ app.last = "generationFailed" =>
       app.state = "analyzed" /\ app.error # None /\ app.analysis # None

\* a generation for the analysis of b.wav failed in group mode and the
\* analysed screen shows the message for a missing API key
C30_Witness ==
  /\ Rendered
  /\ app.last = "generationFailed"
  /\ app.state = "analyzed"
  /\ app.error = [message |-> ErrorMessage("Missing API key")]
  /\ app.analysis = [of |-> "b.wav"]
  /\ app.mode = "group"

====
